---- MODULE Spec2Model ----
(***************************************************************************)
(* A model of circular's liquidity graph (graph.Graph), its reverse        *)
(* Dijkstra router, the rebalance attempt (rebalance.Rebalance.tryRoute)   *)
(* and the node's refresh cron jobs (node.Node.refreshGraph).              *)
(*                                                                         *)
(* Amounts are millisatoshi.  Go's uint64 is modelled by a narrower        *)
(* unsigned word (UintModulus): TLC's integers end at 2^31-1.  Every       *)
(* capacity and aging amount of the model is far below the modulus, so a   *)
(* wrap happens exactly where it happens in 64 bits: on the subtraction    *)
(* capacity - liquidity when liquidity > capacity, and on the addition     *)
(* liquidity + aging when liquidity is such a wrapped value.               *)
(***************************************************************************)
EXTENDS Integers, Sequences, FiniteSets, TLC

VARIABLES
    Channels,     \* Graph.Channels: channelId -> Channel
    Outbound,     \* Graph.Outbound: node -> node -> Edge (sequence of scids)
    Inbound,      \* Graph.Inbound:  node -> node -> Edge
    panicked,     \* TRUE once a nil dereference has ended the process
    refreshes,    \* number of Graph.Refresh calls made so far
    channelList,  \* the listing handed to the last Graph.Refresh
    agingLog,     \* the aging steps of the last Graph.Refresh, in order
    request,      \* the arguments of the Graph.GetRoute call in progress
    distance,     \* dijkstra: distance (a missing key reads 0)
    hop,          \* dijkstra: hop
    pq,           \* dijkstra: the priority queue, a set of items
    pcRoute,      \* "idle", "search" (in the loop) or "done"
    result,       \* what GetRoute returned: [err, hops]
    rebalance,    \* the Rebalance of the attempt: OutChannel, InChannel, Amount, MaxPPM, NodeId
    pcTry,        \* tryRoute: "idle", "getRoute", "routing", "sendPay" or "returned"
    composed,     \* getRoute: the route after Prepend and Append
    sendPayCalls, \* number of Node.SendPay calls of the attempt
    sendPayErr,   \* the error Node.SendPay returned ("" for none)
    tryResult,    \* what tryRoute returned: [err, route]
    graphLock,    \* Node.graphLock: "" when free, else the holder
    pcCron,       \* refreshGraph: "idle", "locked", "refresh", "insert", "prune" or "listNodes"
    cronIdx,      \* Refresh: the index of the record of channelList being processed
    cronChannel,  \* Refresh: the local variable channel before line 168
    cronErr,      \* what the last refreshGraph returned ("" for nil)
    Aliases,      \* Graph.Aliases: node -> alias
    pcTask,       \* cron job -> "idle", "waiting", "locked", "refreshed" or "pruned"
    peersLock,    \* Node.peersLock: "" when free, else the holder
    Peers,        \* Node.Peers: peer id -> peer
    cycles,       \* number of refreshGraph runs the scheduler has started
    cycleLog      \* the lock, refresh, prune and unlock steps of the runs, in order

graphVars == <<Channels, Outbound, Inbound>>
refreshVars == <<panicked, refreshes, channelList, agingLog>>
routeVars == <<request, distance, hop, pq, pcRoute, result>>
rebalanceVars == <<rebalance, pcTry, composed, sendPayCalls, sendPayErr, tryResult>>
cronVars == <<graphLock, pcCron, cronIdx, cronChannel, cronErr, Aliases>>
taskVars == <<pcTask, peersLock, Peers, cycles, cycleLog>>

(***************************************************************************)
(* Bounds of the model.                                                    *)
(***************************************************************************)
MaxListing == 3
MaxRefreshes == 2

(***************************************************************************)
(* Program constants.                                                      *)
(***************************************************************************)
AVERAGE_AGING_AMOUNT == 10000000
AGING_VARIANCE == 5000000

UintModulus == 2 ^ 30

EmptyMap == [x \in {} |-> 0]

Put(f, k, v) == [x \in DOMAIN f \cup {k} |-> IF x = k THEN v ELSE f[x]]

Max(a, b) == IF a > b THEN a ELSE b

(***************************************************************************)
(* Node identifiers (public keys in the program) and their string order.   *)
(***************************************************************************)
Nodes == {"A", "B", "C", "D"}

NodeRank == [n \in Nodes |-> CASE n = "A" -> 1 [] n = "B" -> 2
                                  [] n = "C" -> 3 [] n = "D" -> 4]

\* util.GetDirection: "0" when from sorts before to, "1" otherwise.
GetDirection(from, to) == IF NodeRank[from] < NodeRank[to] THEN "0" ELSE "1"

ChannelId(scid, from, to) == scid \o "/" \o GetDirection(from, to)

(***************************************************************************)
(* glightning.Channel records a listing can hold: the two directions of    *)
(* two physical channels.  s1 is smaller than twice the aging amount, s2   *)
(* is larger.                                                              *)
(***************************************************************************)
Gossip(scid, from, to, sat, base, ppm, min, max, delay) ==
    [ShortChannelId |-> scid, Source |-> from, Destination |-> to,
     Satoshis |-> sat, BaseFeeMillisatoshi |-> base, FeePerMillionth |-> ppm,
     HtlcMinimumMilliSatoshis |-> min, HtlcMaximumMilliSatoshis |-> max,
     Delay |-> delay]

ListedChannels ==
    { Gossip("s1", "A", "B", 4000,  1, 100, 0, 4000000,  6),
      Gossip("s1", "B", "A", 4000,  2, 200, 0, 4000000,  6),
      Gossip("s2", "B", "C", 40000, 1, 100, 0, 40000000, 6),
      Gossip("s2", "C", "B", 40000, 0, 50,  0, 40000000, 6) }

Listings == UNION { [1..n -> ListedChannels] : n \in 1..MaxListing }

\* util.RandRange(AVERAGE_AGING_AMOUNT-AGING_VARIANCE, AVERAGE_AGING_AMOUNT+AGING_VARIANCE):
\* the two ends of the window.
AgingWindow == { AVERAGE_AGING_AMOUNT - AGING_VARIANCE,
                 AVERAGE_AGING_AMOUNT + AGING_VARIANCE }

(***************************************************************************)
(* graph.Channel                                                           *)
(***************************************************************************)
NewChannel(c, liquidity) ==
    [ShortChannelId |-> c.ShortChannelId, Source |-> c.Source,
     Destination |-> c.Destination, Satoshis |-> c.Satoshis,
     BaseFeeMillisatoshi |-> c.BaseFeeMillisatoshi,
     FeePerMillionth |-> c.FeePerMillionth,
     HtlcMinimumMilliSatoshis |-> c.HtlcMinimumMilliSatoshis,
     HtlcMaximumMilliSatoshis |-> c.HtlcMaximumMilliSatoshis,
     Delay |-> c.Delay, Liquidity |-> liquidity]

Capacity(c) == c.Satoshis * 1000

(***************************************************************************)
(* graph.Graph: allocate, AddChannel                                       *)
(***************************************************************************)
allocate(links, from, to) ==
    LET l1 == IF from \in DOMAIN links THEN links ELSE Put(links, from, EmptyMap)
    IN  IF to \in DOMAIN l1[from] THEN l1
        ELSE Put(l1, from, Put(l1[from], to, <<>>))

AppendEdge(links, from, to, scid) ==
    LET l == allocate(links, from, to)
    IN  Put(l, from, Put(l[from], to, Append(l[from][to], scid)))

\* g is a record [Channels, Outbound, Inbound]; AddChannel touches the indices only.
AddChannel(g, c) ==
    [g EXCEPT !.Outbound = AppendEdge(g.Outbound, c.Source, c.Destination, c.ShortChannelId),
              !.Inbound = AppendEdge(g.Inbound, c.Destination, c.Source, c.ShortChannelId)]

(***************************************************************************)
(* Graph.getLiquidityAfterAging and Graph.Refresh                          *)
(***************************************************************************)
\* The 50/50 prior computed from the whole capacity instead of half of it.
PerfectBalanceWhole(c) == c.Satoshis * 1000

\* uint64(0.5 * float64(c.Satoshis*1000)): exact for every capacity below 2^53.
PerfectBalance(c) == (c.Satoshis * 1000) \div 2

getLiquidityAfterAging(chans, channelId, perfectBalance, aging) ==
    Max((chans[channelId].Liquidity + aging) % UintModulus, perfectBalance)

\* One iteration of the loop of Refresh on record c with the aging amount drawn
\* for it.  st is [g, panicked, log].
RefreshOne(st, c, aging) ==
    LET g == st.g
        channelId == ChannelId(c.ShortChannelId, c.Source, c.Destination)
        perfectBalance == PerfectBalance(c)
    IN  IF channelId \notin DOMAIN g.Channels
        THEN LET channel == NewChannel(c, perfectBalance)
                 g1 == AddChannel(g, channel)
             IN  [st EXCEPT !.g = [g1 EXCEPT !.Channels = Put(g1.Channels, channelId, channel)]]
        ELSE LET liquidity == getLiquidityAfterAging(g.Channels, channelId, perfectBalance, aging)
                 oppositeChannelId == ChannelId(c.ShortChannelId, c.Destination, c.Source)
                 entry == [id |-> channelId, previous |-> g.Channels[channelId].Liquidity,
                           aging |-> aging, perfectBalance |-> perfectBalance,
                           liquidity |-> liquidity]
             IN  IF oppositeChannelId \notin DOMAIN g.Channels
                 THEN \* oppositeChannel is nil: the assignment to its Liquidity panics
                      [st EXCEPT !.panicked = TRUE]
                 ELSE LET withOpposite ==
                              [g.Channels EXCEPT ![oppositeChannelId].Liquidity =
                                  (Capacity(c) - liquidity) % UintModulus]
                      IN  [st EXCEPT !.g.Channels = Put(withOpposite, channelId, NewChannel(c, liquidity)),
                                     !.log = Append(st.log, entry)]

RECURSIVE RefreshFrom(_, _, _, _)
RefreshFrom(st, list, agings, i) ==
    IF i > Len(list) \/ st.panicked THEN st
    ELSE RefreshFrom(RefreshOne(st, list[i], agings[i]), list, agings, i + 1)

Refresh(list, agings) ==
    /\ ~panicked
    /\ refreshes < MaxRefreshes
    /\ LET st == RefreshFrom([g |-> [Channels |-> Channels, Outbound |-> Outbound, Inbound |-> Inbound],
                              panicked |-> FALSE, log |-> <<>>], list, agings, 1)
       IN  /\ Channels' = st.g.Channels
           /\ Outbound' = st.g.Outbound
           /\ Inbound' = st.g.Inbound
           /\ panicked' = st.panicked
           /\ agingLog' = st.log
    /\ channelList' = list
    /\ refreshes' = refreshes + 1
    /\ UNCHANGED <<routeVars, rebalanceVars, cronVars, taskVars>>

vars == <<graphVars, refreshVars, routeVars, rebalanceVars, cronVars, taskVars>>

NoRequest == [src |-> "", dst |-> "", amount |-> 0, exclude |-> {}]
NoResult == [err |-> "", hops |-> <<>>]

RouteIdle ==
    /\ request = NoRequest
    /\ distance = EmptyMap
    /\ hop = EmptyMap
    /\ pq = {}
    /\ pcRoute = "idle"
    /\ result = NoResult

NoRoute == [Source |-> "", Destination |-> "", Amount |-> 0, Hops |-> <<>>]
NoRebalance == [OutChannel |-> "", InChannel |-> "", Amount |-> 0, MaxPPM |-> 0, NodeId |-> ""]
NoTryResult == [err |-> "", route |-> NoRoute]

RebalanceIdle ==
    /\ rebalance = NoRebalance
    /\ pcTry = "idle"
    /\ composed = NoRoute
    /\ sendPayCalls = 0
    /\ sendPayErr = ""
    /\ tryResult = NoTryResult

CronIdle ==
    /\ graphLock = ""
    /\ pcCron = "idle"
    /\ cronIdx = 0
    /\ cronChannel = ""
    /\ cronErr = ""
    /\ Aliases = EmptyMap

\* The cron jobs: two runs of refreshGraph that the scheduler may start while
\* the other is under way, and the run of refreshPeers.
GraphTasks == {"g1", "g2"}
PeersTask == "p"
Tasks == GraphTasks \cup {PeersTask}

TasksIdle ==
    /\ pcTask = [t \in Tasks |-> "idle"]
    /\ peersLock = ""
    /\ Peers = EmptyMap
    /\ cycles = 0
    /\ cycleLog = <<>>

\* NewGraph: no file to load, so Channels is empty and the indices are nil.
Init ==
    /\ Channels = EmptyMap
    /\ Outbound = EmptyMap
    /\ Inbound = EmptyMap
    /\ panicked = FALSE
    /\ refreshes = 0
    /\ channelList = <<>>
    /\ agingLog = <<>>
    /\ RouteIdle
    /\ RebalanceIdle
    /\ CronIdle
    /\ TasksIdle

Next ==
    \E list \in Listings : \E agings \in [1..Len(list) -> AgingWindow] :
        Refresh(list, agings)

Spec == Init /\ [][Next]_vars

(***************************************************************************)
(* Claims about Graph.Refresh                                              *)
(***************************************************************************)
Opposite(ch) == ChannelId(ch.ShortChannelId, ch.Destination, ch.Source)

IdOf(c) == ChannelId(c.ShortChannelId, c.Source, c.Destination)

\* C1: every stored channel has 0 <= liquidity <= capacity after any sequence
\* of refreshes.
C1_LiquidityWithinCapacity ==
    \A id \in DOMAIN Channels :
        /\ 0 <= Channels[id].Liquidity
        /\ Channels[id].Liquidity <= Capacity(Channels[id])

\* C2: after Refresh has processed a listing, the two directions of a channel
\* that are both stored split the capacity: their liquidities add up to it.
C2_ZeroSum ==
    ~panicked =>
        \A id \in DOMAIN Channels :
            Opposite(Channels[id]) \in DOMAIN Channels =>
                Channels[id].Liquidity + Channels[Opposite(Channels[id])].Liquidity
                    = Capacity(Channels[id])

Listed(list, id) == { i \in 1..Len(list) : IdOf(list[i]) = id }

\* C3 as stated: a refresh that runs to its end and finds both directions of
\* a channel absent and listed leaves both with liquidity capacity/2.
C3_BothNewAtHalf ==
    [][\A i \in 1..Len(channelList') :
          LET c == channelList'[i]
              id == IdOf(c)
              opp == ChannelId(c.ShortChannelId, c.Destination, c.Source)
          IN  (/\ ~panicked'
               /\ id \notin DOMAIN Channels
               /\ opp \notin DOMAIN Channels
               /\ Listed(channelList', opp) # {})
              => /\ id \in DOMAIN Channels'
                 /\ Channels'[id].Liquidity = Capacity(c) \div 2]_vars

AgedIn(log, id) == \E k \in 1..Len(log) : log[k].id = id

\* C3 amended: a direction absent before the refresh is created with liquidity
\* capacity/2 and keeps it to the end of the refresh (also of one that panics
\* later) unless a later record of the same listing ages the channel; so a
\* refresh that runs to its end with both directions of a new channel listed
\* once each leaves both at capacity/2.
C3_NewAtHalfUnlessAged ==
    [][\A i \in 1..Len(channelList') :
          LET c == channelList'[i]
              id == IdOf(c)
              opp == ChannelId(c.ShortChannelId, c.Destination, c.Source)
          IN  /\ (/\ id \notin DOMAIN Channels
                  /\ id \in DOMAIN Channels'
                  /\ ~AgedIn(agingLog', id)
                  /\ ~AgedIn(agingLog', opp))
                 => Channels'[id].Liquidity = Capacity(c) \div 2
              /\ (/\ ~panicked'
                  /\ id \notin DOMAIN Channels
                  /\ opp \notin DOMAIN Channels
                  /\ Cardinality(Listed(channelList', id)) = 1
                  /\ Cardinality(Listed(channelList', opp)) = 1)
                 => /\ ~AgedIn(agingLog', id)
                    /\ id \in DOMAIN Channels'
                    /\ Channels'[id].Liquidity = Capacity(c) \div 2]_vars

\* The first refresh has listed both directions of s2, once each, and created both.
C3_Witness ==
    /\ refreshes = 1
    /\ ~panicked
    /\ Len(channelList) = 2
    /\ IdOf(channelList[1]) = "s2/0"
    /\ IdOf(channelList[2]) = "s2/1"
    /\ {"s2/0", "s2/1"} \subseteq DOMAIN Channels
    /\ Channels["s2/0"].Liquidity = 20000000
    /\ Channels["s2/1"].Liquidity = 20000000

\* C4: every aging step stores exactly max(previous + aging, capacity/2).
C4_AgedToMax ==
    \A k \in 1..Len(agingLog) :
        agingLog[k].liquidity =
            Max(agingLog[k].previous + agingLog[k].aging, agingLog[k].perfectBalance)

(***************************************************************************)
(* graph.Channel: CanUse, ComputeFee                                       *)
(***************************************************************************)
CanUse(ch, amt) ==
    /\ ch.Liquidity >= amt
    /\ ch.HtlcMaximumMilliSatoshis >= amt
    /\ ch.HtlcMinimumMilliSatoshis <= amt

ComputeFee(ch, amt) ==
    ch.BaseFeeMillisatoshi + (amt * ch.FeePerMillionth) \div 1000000

(***************************************************************************)
(* The graphs the router is run on: every selection of the channels below, *)
(* loaded in this order by replaying AddChannel (parallel channels r5 and  *)
(* r4 share the edge C -> D; r4 and r8 make a cycle that costs no fee).    *)
(***************************************************************************)
RouteChannels ==
    << NewChannel(Gossip("r1", "A", "B", 1, 1,  10000, 0,   1000, 6),  1000),
       NewChannel(Gossip("r2", "B", "D", 1, 2,  0,     0,   1000, 10), 150),
       NewChannel(Gossip("r3", "A", "C", 1, 1,  0,     105, 1000, 6),  1000),
       NewChannel(Gossip("r5", "C", "D", 1, 10, 0,     0,   1000, 6),  1000),
       NewChannel(Gossip("r4", "C", "D", 1, 0,  0,     0,   1000, 6),  1000),
       NewChannel(Gossip("r6", "D", "A", 1, 0,  0,     0,   1000, 6),  1000),
       NewChannel(Gossip("r7", "B", "C", 1, 0,  0,     0,   1000, 6),  1000),
       NewChannel(Gossip("r8", "D", "C", 1, 0,  0,     0,   1000, 6),  1000) >>

RouteAmounts == {100, 200}

RouteExcludes == {{}, {"B"}, {"D"}}

RECURSIVE LoadFrom(_, _, _)
LoadFrom(g, chosen, i) ==
    IF i > Len(RouteChannels) THEN g
    ELSE IF i \notin chosen THEN LoadFrom(g, chosen, i + 1)
    ELSE LET c == RouteChannels[i]
             g1 == AddChannel(g, c)
         IN  LoadFrom([g1 EXCEPT !.Channels = Put(g1.Channels, IdOf(c), c)], chosen, i + 1)

LoadGraph(chosen) ==
    LoadFrom([Channels |-> EmptyMap, Outbound |-> EmptyMap, Inbound |-> EmptyMap], chosen, 1)

(***************************************************************************)
(* Graph.dijkstra                                                          *)
(***************************************************************************)
maxDistance == 2147483647

\* distance[u] of a Go map: the zero value for a missing key.
Dist(d, u) == IF u \in DOMAIN d THEN d[u] ELSE 0

ExcludedNever(exclude, v) == FALSE

\* exclude[v]
Excluded(exclude, v) == v \in exclude

InitialDistance(dst) == Put([u \in DOMAIN Inbound |-> maxDistance], dst, 0)

ImprovesOrEqual(newDistance, old) == newDistance <= old

\* Line 121: newDistance < distance[v]
Improves(newDistance, old) == newDistance < old

RecordedHopAfterFee(channel, item, channelFee) ==
    [Channel |-> channel, MilliSatoshi |-> item.Amount + channelFee, Delay |-> item.Delay]

\* Lines 123-127: the hop recorded for v carries the amount and the delay of
\* the popped item.
RecordedHop(channel, item, channelFee) ==
    [Channel |-> channel, MilliSatoshi |-> item.Amount, Delay |-> item.Delay]

PushedItemFeeTakenOff(v, item, channel, channelFee, newDistance) ==
    [Node |-> v, Amount |-> item.Amount - channelFee,
     Delay |-> item.Delay + channel.Delay, priority |-> newDistance]

\* Lines 128-132: the item pushed for v.
PushedItem(v, item, channel, channelFee, newDistance) ==
    [Node |-> v, Amount |-> item.Amount + channelFee,
     Delay |-> item.Delay + channel.Delay, priority |-> newDistance]

\* The inner loop over the scids of one edge v -> u, for the popped item.
\* s is [distance, hop, pq, panic]; a scid of the index with no entry in
\* Channels gives a nil channel, and channel.CanUse panics.
RECURSIVE RelaxEdge(_, _, _, _, _)
RelaxEdge(s, item, v, edge, i) ==
    IF i > Len(edge) \/ s.panic THEN s
    ELSE IF ChannelId(edge[i], v, item.Node) \notin DOMAIN Channels
    THEN [s EXCEPT !.panic = TRUE]
    ELSE LET u == item.Node
             channel == Channels[ChannelId(edge[i], v, u)]
             channelFee == ComputeFee(channel, item.Amount)
             newDistance == Dist(s.distance, u) + channelFee
         IN  IF ~CanUse(channel, item.Amount) THEN RelaxEdge(s, item, v, edge, i + 1)
             ELSE IF Improves(newDistance, Dist(s.distance, v))
             THEN RelaxEdge([distance |-> Put(s.distance, v, newDistance),
                             hop |-> Put(s.hop, v, RecordedHop(channel, item, channelFee)),
                             pq |-> s.pq \cup {PushedItem(v, item, channel, channelFee,
                                                          newDistance)},
                             panic |-> FALSE],
                            item, v, edge, i + 1)
             ELSE RelaxEdge(s, item, v, edge, i + 1)

\* The loop over the predecessors v of the popped node: each v has its own
\* distance and hop entry, so the map's iteration order does not show.
RECURSIVE RelaxAll(_, _, _, _)
RelaxAll(s, item, exclude, todo) ==
    IF todo = {} \/ s.panic THEN s
    ELSE LET v == CHOOSE x \in todo : TRUE
         IN  IF Excluded(exclude, v) THEN RelaxAll(s, item, exclude, todo \ {v})
             ELSE RelaxAll(RelaxEdge(s, item, v, Inbound[item.Node][v], 1),
                           item, exclude, todo \ {v})

Predecessors(u) == IF u \in DOMAIN Inbound THEN DOMAIN Inbound[u] ELSE {}

NextNodeIsSource(h) == h.Channel.Source

\* Line 143: u = hop[u].Channel.Destination
NextNode(h) == h.Channel.Destination

\* The walk from src along hop; a missing hop is a nil Channel, whose
\* Destination cannot be read.
RECURSIVE Walk(_, _, _, _, _)
Walk(hp, u, dst, hops, fuel) ==
    IF u = dst THEN [err |-> "", hops |-> hops]
    ELSE IF u \notin DOMAIN hp THEN [err |-> "panic", hops |-> hops]
    ELSE IF fuel = 0 THEN [err |-> "endless", hops |-> hops]
    ELSE Walk(hp, NextNode(hp[u]), dst, Append(hops, hp[u]), fuel - 1)

\* Lines 137-146: the no-route check and the reconstruction.
Reconstruct(d, hp, src, dst) ==
    IF Dist(d, src) = maxDistance THEN [err |-> "no route found", hops |-> <<>>]
    ELSE Walk(hp, src, dst, <<>>, Cardinality(Nodes))

\* Graph.GetRoute up to the loop of dijkstra.
StartSearch(src, dst, amount, exclude) ==
    /\ pcRoute = "idle"
    /\ ~panicked
    /\ request' = [src |-> src, dst |-> dst, amount |-> amount, exclude |-> exclude]
    /\ distance' = InitialDistance(dst)
    /\ hop' = EmptyMap
    /\ pq' = {[Node |-> dst, Amount |-> amount, Delay |-> 0, priority |-> 0]}
    /\ pcRoute' = "search"
    /\ UNCHANGED <<result, graphVars, refreshVars, cronVars, taskVars>>

GetRoute(src, dst, amount, exclude) ==
    /\ StartSearch(src, dst, amount, exclude)
    /\ UNCHANGED rebalanceVars

LowestPriority(item) == \A other \in pq : item.priority <= other.priority

\* heap.Pop gives src: break, then the check and the reconstruction.
PopSource ==
    /\ pcRoute = "search"
    /\ ~panicked
    /\ \E item \in pq :
        /\ LowestPriority(item)
        /\ item.Node = request.src
        /\ pq' = pq \ {item}
    /\ result' = Reconstruct(distance, hop, request.src, request.dst)
    /\ pcRoute' = "done"
    /\ panicked' = (result'.err = "panic")
    /\ UNCHANGED <<request, distance, hop, graphVars, refreshes, channelList, agingLog,
                   rebalanceVars, cronVars, taskVars>>

\* heap.Pop gives an item that a cheaper one has overtaken: continue.
PopStale ==
    /\ pcRoute = "search"
    /\ ~panicked
    /\ \E item \in pq :
        /\ LowestPriority(item)
        /\ item.Node # request.src
        /\ item.priority > Dist(distance, item.Node)
        /\ pq' = pq \ {item}
    /\ UNCHANGED <<request, distance, hop, pcRoute, result, graphVars, refreshVars,
                   rebalanceVars, cronVars, taskVars>>

\* heap.Pop gives a node to expand.
PopExpand ==
    /\ pcRoute = "search"
    /\ ~panicked
    /\ \E item \in pq :
        /\ LowestPriority(item)
        /\ item.Node # request.src
        /\ item.priority <= Dist(distance, item.Node)
        /\ LET s == RelaxAll([distance |-> distance, hop |-> hop, pq |-> pq \ {item},
                              panic |-> FALSE],
                             item, request.exclude, Predecessors(item.Node))
           IN  /\ distance' = s.distance
               /\ hop' = s.hop
               /\ pq' = s.pq
               /\ panicked' = s.panic
               /\ pcRoute' = IF s.panic THEN "done" ELSE pcRoute
               /\ result' = IF s.panic THEN [err |-> "panic", hops |-> <<>>] ELSE result
    /\ UNCHANGED <<request, graphVars, refreshes, channelList, agingLog,
                   rebalanceVars, cronVars, taskVars>>

\* pq.Len() = 0: the loop ends, then the check and the reconstruction.
QueueEmpty ==
    /\ pcRoute = "search"
    /\ ~panicked
    /\ pq = {}
    /\ result' = Reconstruct(distance, hop, request.src, request.dst)
    /\ pcRoute' = "done"
    /\ panicked' = (result'.err = "panic")
    /\ UNCHANGED <<request, distance, hop, pq, graphVars, refreshes, channelList, agingLog,
                   rebalanceVars, cronVars, taskVars>>

RouteInit ==
    /\ \E chosen \in SUBSET (1..Len(RouteChannels)) :
          LET g == LoadGraph(chosen)
          IN  /\ Channels = g.Channels
              /\ Outbound = g.Outbound
              /\ Inbound = g.Inbound
    /\ panicked = FALSE
    /\ refreshes = 0
    /\ channelList = <<>>
    /\ agingLog = <<>>
    /\ RouteIdle
    /\ RebalanceIdle
    /\ CronIdle
    /\ TasksIdle

RouteNext ==
    \/ \E src \in Nodes, dst \in Nodes, amount \in RouteAmounts, exclude \in RouteExcludes :
          GetRoute(src, dst, amount, exclude)
    \/ PopSource
    \/ PopStale
    \/ PopExpand
    \/ QueueEmpty

SpecRoute == RouteInit /\ [][RouteNext]_vars

(***************************************************************************)
(* Claims about Graph.dijkstra                                             *)
(***************************************************************************)
MinOf(S) == CHOOSE x \in S : \A y \in S : x <= y

\* The channels that can carry amt into node u from a node that is neither
\* excluded nor already on the path.
UsableInto(u, amt, exclude, visited) ==
    { id \in DOMAIN Channels :
        /\ Channels[id].Destination = u
        /\ Channels[id].Source \notin visited \cup exclude
        /\ CanUse(Channels[id], amt) }

\* Exhaustive enumeration: the total fees of all usable simple paths from src
\* to u, the path from u on to the destination costing fee and needing amt at u.
RECURSIVE PathFees(_, _, _, _, _, _)
PathFees(src, u, amt, fee, exclude, visited) ==
    IF u = src THEN {fee}
    ELSE UNION { LET f == ComputeFee(Channels[id], amt)
                 IN  PathFees(src, Channels[id].Source, amt + f, fee + f, exclude,
                              visited \cup {Channels[id].Source})
                 : id \in UsableInto(u, amt, exclude, visited) }

RequestPathFees ==
    PathFees(request.src, request.dst, request.amount, 0, request.exclude, {request.dst})

RECURSIVE SumFees(_, _)
SumFees(hops, i) ==
    IF i > Len(hops) THEN 0
    ELSE ComputeFee(hops[i].Channel, hops[i].MilliSatoshi) + SumFees(hops, i + 1)

\* C5: whenever a usable path exists, the returned route's total fee is the
\* minimum over all usable simple paths.
C5_MinimumFee ==
    (pcRoute = "done" /\ RequestPathFees # {}) =>
        /\ result.err = ""
        /\ SumFees(result.hops, 1) = MinOf(RequestPathFees)

\* C6: whenever no usable path exists, findRoute returns NoRouteFound.
C6_NoRouteFound ==
    (pcRoute = "done" /\ RequestPathFees = {}) => result.err = "no route found"

\* C7 as stated: a returned route uses no channel whose source or destination
\* is an excluded node.
C7_NoHopTouchesExcluded ==
    (pcRoute = "done" /\ result.err = "") =>
        \A i \in 1..Len(result.hops) :
            /\ result.hops[i].Channel.Source \notin request.exclude
            /\ result.hops[i].Channel.Destination \notin request.exclude

\* C7 amended: a returned route uses no channel whose source is an excluded
\* node, and none whose destination is an excluded node other than the
\* requested destination itself.
C7_NoHopThroughExcluded ==
    (pcRoute = "done" /\ result.err = "") =>
        \A i \in 1..Len(result.hops) :
            /\ result.hops[i].Channel.Source \notin request.exclude
            /\ result.hops[i].Channel.Destination \in request.exclude
                   => result.hops[i].Channel.Destination = request.dst

\* A route from A to D was returned with B excluded, in a graph where the
\* cheapest usable path runs through B.
C7_Witness ==
    /\ pcRoute = "done"
    /\ result.err = ""
    /\ request = [src |-> "A", dst |-> "D", amount |-> 100, exclude |-> {"B"}]
    /\ Len(result.hops) = 2
    /\ PathFees("A", "D", 100, 0, {}, {"D"}) # {}
    /\ MinOf(PathFees("A", "D", 100, 0, {}, {"D"})) < SumFees(result.hops, 1)

(***************************************************************************)
(* graph.Route: NewRoute, Prepend, Append, FeePPM                          *)
(***************************************************************************)
\* The hops of a route over the channels chs delivering amount: amounts and
\* delays are computed backward from the last hop.
RECURSIVE HopsOver(_, _, _)
HopsOver(chs, amount, i) ==
    IF i = Len(chs) THEN <<[Channel |-> chs[i], MilliSatoshi |-> amount, Delay |-> 0]>>
    ELSE LET rest == HopsOver(chs, amount, i + 1)
             next == rest[1]
         IN  <<[Channel |-> chs[i],
                MilliSatoshi |-> next.MilliSatoshi + ComputeFee(next.Channel, next.MilliSatoshi),
                Delay |-> next.Delay + next.Channel.Delay]>> \o rest

ChannelsOf(route) == [i \in 1..Len(route.Hops) |-> route.Hops[i].Channel]

NewRoute(src, dst, amount, hops) ==
    [Source |-> src, Destination |-> dst, Amount |-> amount, Hops |-> hops]

RoutePrepend(route, channel) ==
    [route EXCEPT !.Source = channel.Source,
                  !.Hops = HopsOver(<<channel>> \o ChannelsOf(route), route.Amount, 1)]

RouteAppend(route, channel) ==
    [route EXCEPT !.Destination = channel.Destination,
                  !.Hops = HopsOver(ChannelsOf(route) \o <<channel>>, route.Amount, 1)]

\* The total fee: what the first hop carries above the delivered amount.
RouteFee(route) == route.Hops[1].MilliSatoshi - route.Amount

FeePPM(route) == (RouteFee(route) * 1000000) \div route.Amount

(***************************************************************************)
(* rebalance.Rebalance: getRoute, tryRoute                                 *)
(***************************************************************************)
SelfId == "A"

\* The node's own channels: r1 and r3 lead out of it, r6 leads into it.
OutChannels == {RouteChannels[1], RouteChannels[3]}
InChannels == {RouteChannels[6]}

MaxPPMs == {0, 20000, 200000}

\* The attempts of node A over its own channels, and those of node D from
\* its channel r6 to A into its channel r4 from C: for 100, less than the
\* minimum of r3, the only ways from A to C are over r7 or back through D.
Rebalances ==
    [OutChannel : OutChannels, InChannel : InChannels, Amount : RouteAmounts,
     MaxPPM : MaxPPMs, NodeId : {SelfId}]
    \cup [OutChannel : {RouteChannels[6]}, InChannel : {RouteChannels[5]},
          Amount : RouteAmounts, MaxPPM : MaxPPMs, NodeId : {"D"}]

\* What Node.SendPay can return: no error, the timeout, or another failure.
SendPayErrors == {"", "ErrSendPayTimeout", "WIRE_TEMPORARY_CHANNEL_FAILURE", "rpc error"}

TooExpensiveOrEqual(route, maxPPM) == FeePPM(route) >= maxPPM

\* route.FeePPM() > r.MaxPPM
TooExpensive(route, maxPPM) == FeePPM(route) > maxPPM

SendPayErrVerbatim(err) == err

\* Lines 51-56 of tryRoute: the error returned after a failed SendPay.
SendPayFailure(err) ==
    IF err = "ErrSendPayTimeout" THEN err ELSE "ErrTemporaryFailure"

\* tryRoute up to the call of getRoute: GeneratePreimageHashPair succeeds or fails.
GeneratePreimage(r, ok) ==
    /\ pcTry = "idle"
    /\ ~panicked
    /\ rebalance' = r
    /\ IF ok
       THEN /\ pcTry' = "getRoute"
            /\ tryResult' = tryResult
       ELSE /\ pcTry' = "returned"
            /\ tryResult' = [err |-> "preimage error", route |-> NoRoute]
    /\ UNCHANGED <<composed, sendPayCalls, sendPayErr, graphVars, refreshVars, routeVars,
                   cronVars, taskVars>>

ExcludeNothing(r) == {}

\* Lines 12-13: exclude[r.Node.Id] = true
ExcludeSelf(r) == {r.NodeId}

\* getRoute, lines 10-19: the call of Graph.GetRoute.  The router under src/
\* takes no hop limit, so maxHops does not show.
getRoute ==
    /\ pcTry = "getRoute"
    /\ StartSearch(rebalance.OutChannel.Destination, rebalance.InChannel.Source,
                   rebalance.Amount, ExcludeSelf(rebalance))
    /\ pcTry' = "routing"
    /\ UNCHANGED <<rebalance, composed, sendPayCalls, sendPayErr, tryResult>>

\* getRoute, lines 20-31, and tryRoute, lines 42-48, once GetRoute has returned.
getRouteReturn ==
    /\ pcTry = "routing"
    /\ pcRoute = "done"
    /\ ~panicked
    /\ IF result.err # ""
       THEN /\ composed' = composed
            /\ tryResult' = [err |-> result.err, route |-> NoRoute]
            /\ pcTry' = "returned"
       ELSE LET route == RouteAppend(
                             RoutePrepend(NewRoute(request.src, request.dst,
                                                   request.amount, result.hops),
                                          rebalance.OutChannel),
                             rebalance.InChannel)
            IN  /\ composed' = route
                /\ IF TooExpensive(route, rebalance.MaxPPM)
                   THEN /\ tryResult' = [err |-> "route too expensive", route |-> NoRoute]
                        /\ pcTry' = "returned"
                   ELSE /\ tryResult' = tryResult
                        /\ pcTry' = "sendPay"
    /\ UNCHANGED <<rebalance, sendPayCalls, sendPayErr, graphVars, refreshVars, routeVars,
                   cronVars, taskVars>>

\* tryRoute, lines 50-58: Node.SendPay returns err.
SendPay(err) ==
    /\ pcTry = "sendPay"
    /\ ~panicked
    /\ sendPayCalls' = sendPayCalls + 1
    /\ sendPayErr' = err
    /\ tryResult' = IF err # "" THEN [err |-> SendPayFailure(err), route |-> NoRoute]
                    ELSE [err |-> "", route |-> composed]
    /\ pcTry' = "returned"
    /\ UNCHANGED <<rebalance, composed, graphVars, refreshVars, routeVars,
                   cronVars, taskVars>>

RebalanceNext ==
    \/ \E r \in Rebalances, ok \in BOOLEAN : GeneratePreimage(r, ok)
    \/ getRoute
    \/ PopSource
    \/ PopStale
    \/ PopExpand
    \/ QueueEmpty
    \/ getRouteReturn
    \/ \E err \in SendPayErrors : SendPay(err)

SpecRebalance == RouteInit /\ [][RebalanceNext]_vars

(***************************************************************************)
(* Claims about Rebalance.tryRoute                                         *)
(***************************************************************************)
\* C9: an attempt whose composed route costs more than MaxPPM returns
\* RouteTooExpensive without any SendPay; one that costs MaxPPM or less is
\* not rejected as too expensive.
C9_TooExpensiveNeverSent ==
    composed # NoRoute =>
        /\ FeePPM(composed) > rebalance.MaxPPM =>
               /\ pcTry = "returned"
               /\ tryResult.err = "route too expensive"
               /\ sendPayCalls = 0
        /\ FeePPM(composed) <= rebalance.MaxPPM =>
               tryResult.err # "route too expensive"

\* An attempt over r1, r2, r6 for 100 (fee 2, 20000 ppm) with a ceiling of 0
\* has returned RouteTooExpensive.
C9_Witness ==
    /\ pcTry = "returned"
    /\ tryResult.err = "route too expensive"
    /\ Len(composed.Hops) = 3
    /\ FeePPM(composed) = 20000
    /\ rebalance.MaxPPM = 0
    /\ sendPayCalls = 0

\* C10: after a dispatch, a timeout is returned as it is, any other failure
\* as TemporaryFailure, and a success returns the dispatched route.
C10_DispatchOutcome ==
    (pcTry = "returned" /\ sendPayCalls > 0) =>
        /\ sendPayErr = "ErrSendPayTimeout" =>
               tryResult = [err |-> "ErrSendPayTimeout", route |-> NoRoute]
        /\ sendPayErr \notin {"", "ErrSendPayTimeout"} =>
               tryResult = [err |-> "ErrTemporaryFailure", route |-> NoRoute]
        /\ sendPayErr = "" =>
               /\ tryResult = [err |-> "", route |-> composed]
               /\ composed.Hops[1].Channel = rebalance.OutChannel
               /\ composed.Hops[Len(composed.Hops)].Channel = rebalance.InChannel

\* A dispatch has failed with an error other than the timeout.
C10_Witness ==
    /\ pcTry = "returned"
    /\ sendPayCalls = 1
    /\ sendPayErr = "rpc error"
    /\ tryResult.err = "ErrTemporaryFailure"

(***************************************************************************)
(* Graph.PruneChannels and Graph.RefreshAliases                            *)
(***************************************************************************)
Without(f, k) == [x \in DOMAIN f \ {k} |-> f[x]]

RECURSIVE SeqWithout(_, _)
SeqWithout(seq, x) ==
    IF seq = <<>> THEN <<>>
    ELSE IF Head(seq) = x THEN SeqWithout(Tail(seq), x)
    ELSE <<Head(seq)>> \o SeqWithout(Tail(seq), x)

\* The scid taken out of links[from][to]; buckets left empty are removed.
RemoveEdge(links, from, to, scid) ==
    IF from \notin DOMAIN links \/ to \notin DOMAIN links[from] THEN links
    ELSE LET edge == SeqWithout(links[from][to], scid)
             inner == IF edge = <<>> THEN Without(links[from], to)
                      ELSE Put(links[from], to, edge)
         IN  IF DOMAIN inner = {} THEN Without(links, from) ELSE Put(links, from, inner)

ListedIds(list) == { IdOf(list[i]) : i \in 1..Len(list) }

\* The channels that the most recent listing does not hold.
Stale(list) == DOMAIN Channels \ ListedIds(list)

AliasOf == [n \in Nodes |-> "alias of " \o n]

(***************************************************************************)
(* node.Node.refreshGraph, step by step, and a rebalance attempt beside it *)
(***************************************************************************)
CronListings == UNION { [1..n -> ListedChannels] : n \in 1..2 }

\* What the end of refreshGraph can return: nil, or the error of ListNodes
\* or of SaveGraphToFile.
CronOutcomes == {"", "error listing nodes", "error saving graph to file"}

\* The attempt of node D to move funds from its channel to A into its channel
\* from C: the interior route runs from A to C.
CronRebalance ==
    [OutChannel |-> NewChannel(Gossip("s3", "D", "A", 40000, 1, 100, 0, 40000000, 6), 20000000),
     InChannel |-> NewChannel(Gossip("s4", "C", "D", 40000, 1, 100, 0, 40000000, 6), 20000000),
     Amount |-> 1000000, MaxPPM |-> 1000, NodeId |-> "D"]

CronRecord == channelList[cronIdx]

\* Line 38: n.graphLock.L.Lock()
CronLock ==
    /\ pcCron = "idle"
    /\ ~panicked
    /\ refreshes < MaxRefreshes
    /\ graphLock = ""
    /\ graphLock' = "refreshGraph"
    /\ pcCron' = "locked"
    /\ UNCHANGED <<cronIdx, cronChannel, cronErr, Aliases, graphVars, refreshVars,
                   routeVars, rebalanceVars, taskVars>>

\* Lines 41-47: ListChannels returns a listing.
CronListChannels(list) ==
    /\ pcCron = "locked"
    /\ ~panicked
    /\ channelList' = list
    /\ agingLog' = <<>>
    /\ cronIdx' = 1
    /\ refreshes' = refreshes + 1
    /\ pcCron' = "refresh"
    /\ UNCHANGED <<graphLock, cronChannel, cronErr, Aliases, graphVars, panicked,
                   routeVars, rebalanceVars, taskVars>>

\* Lines 41-45: ListChannels fails; the deferred Unlock runs.
CronListChannelsFails ==
    /\ pcCron = "locked"
    /\ ~panicked
    /\ cronErr' = "error listing channels"
    /\ refreshes' = refreshes + 1
    /\ graphLock' = ""
    /\ pcCron' = "idle"
    /\ UNCHANGED <<cronIdx, cronChannel, Aliases, graphVars, panicked, channelList,
                   agingLog, routeVars, rebalanceVars, taskVars>>

\* Refresh, lines 154-159: the record is new; AddChannel updates the indices.
CronCreate ==
    /\ pcCron = "refresh"
    /\ ~panicked
    /\ cronIdx <= Len(channelList)
    /\ IdOf(CronRecord) \notin DOMAIN Channels
    /\ LET channel == NewChannel(CronRecord, PerfectBalance(CronRecord))
           g == AddChannel([Channels |-> Channels, Outbound |-> Outbound,
                            Inbound |-> Inbound], channel)
       IN  /\ Outbound' = g.Outbound
           /\ Inbound' = g.Inbound
           /\ cronChannel' = channel
    /\ pcCron' = "insert"
    /\ UNCHANGED <<Channels, graphLock, cronIdx, cronErr, Aliases, refreshVars,
                   routeVars, rebalanceVars, taskVars>>

\* Refresh, lines 160-166: the record is known; its liquidity is aged and the
\* opposite direction is updated (a nil opposite channel panics).
CronAge(aging) ==
    /\ pcCron = "refresh"
    /\ ~panicked
    /\ cronIdx <= Len(channelList)
    /\ IdOf(CronRecord) \in DOMAIN Channels
    /\ LET c == CronRecord
           liquidity == getLiquidityAfterAging(Channels, IdOf(c), PerfectBalance(c), aging)
           oppositeChannelId == ChannelId(c.ShortChannelId, c.Destination, c.Source)
       IN  IF oppositeChannelId \notin DOMAIN Channels
           THEN /\ panicked' = TRUE
                /\ UNCHANGED <<Channels, cronChannel, agingLog, pcCron>>
           ELSE /\ Channels' = [Channels EXCEPT ![oppositeChannelId].Liquidity =
                                    (Capacity(c) - liquidity) % UintModulus]
                /\ cronChannel' = NewChannel(c, liquidity)
                /\ agingLog' = Append(agingLog,
                                      [id |-> IdOf(c), previous |-> Channels[IdOf(c)].Liquidity,
                                       aging |-> aging, perfectBalance |-> PerfectBalance(c),
                                       liquidity |-> liquidity])
                /\ pcCron' = "insert"
                /\ panicked' = panicked
    /\ UNCHANGED <<Outbound, Inbound, graphLock, cronIdx, cronErr, Aliases, refreshes,
                   channelList, routeVars, rebalanceVars, taskVars>>

\* Refresh, line 168: g.Channels[channelId] = channel
CronInsert ==
    /\ pcCron = "insert"
    /\ ~panicked
    /\ Channels' = Put(Channels, IdOf(CronRecord), cronChannel)
    /\ cronChannel' = ""
    /\ cronIdx' = cronIdx + 1
    /\ pcCron' = "refresh"
    /\ UNCHANGED <<Outbound, Inbound, graphLock, cronErr, Aliases, refreshVars,
                   routeVars, rebalanceVars, taskVars>>

\* Lines 50-51: the loop of Refresh is over; PruneChannels is called.
CronRefreshed ==
    /\ pcCron = "refresh"
    /\ ~panicked
    /\ cronIdx > Len(channelList)
    /\ pcCron' = "prune"
    /\ UNCHANGED <<graphLock, cronIdx, cronChannel, cronErr, Aliases, graphVars,
                   refreshVars, routeVars, rebalanceVars, taskVars>>

\* PruneChannels removes one channel that the listing does not hold.
CronPruneOne ==
    /\ pcCron = "prune"
    /\ ~panicked
    /\ \E id \in Stale(channelList) :
          LET c == Channels[id]
          IN  /\ Channels' = Without(Channels, id)
              /\ Outbound' = RemoveEdge(Outbound, c.Source, c.Destination, c.ShortChannelId)
              /\ Inbound' = RemoveEdge(Inbound, c.Destination, c.Source, c.ShortChannelId)
    /\ UNCHANGED <<cronVars, refreshVars, routeVars, rebalanceVars, taskVars>>

\* Lines 53-54: PruneChannels has returned.
CronPruned ==
    /\ pcCron = "prune"
    /\ ~panicked
    /\ Stale(channelList) = {}
    /\ pcCron' = "listNodes"
    /\ UNCHANGED <<graphLock, cronIdx, cronChannel, cronErr, Aliases, graphVars,
                   refreshVars, routeVars, rebalanceVars, taskVars>>

AliasesAlwaysRefreshed(err, aliases) == AliasOf

\* Lines 54-59: a failed ListNodes returns before RefreshAliases is called.
AliasesAfter(err, aliases) == IF err = "error listing nodes" THEN aliases ELSE AliasOf

\* Lines 54-68: ListNodes, RefreshAliases, SaveGraphToFile and the deferred Unlock.
CronFinish(err) ==
    /\ pcCron = "listNodes"
    /\ ~panicked
    /\ Aliases' = AliasesAfter(err, Aliases)
    /\ cronErr' = err
    /\ graphLock' = ""
    /\ pcCron' = "idle"
    /\ UNCHANGED <<cronIdx, cronChannel, graphVars, refreshVars, routeVars, rebalanceVars, taskVars>>

\* The attempt has its preimage and is about to call getRoute.
CronInit ==
    /\ Channels = EmptyMap
    /\ Outbound = EmptyMap
    /\ Inbound = EmptyMap
    /\ panicked = FALSE
    /\ refreshes = 0
    /\ channelList = <<>>
    /\ agingLog = <<>>
    /\ RouteIdle
    /\ rebalance = CronRebalance
    /\ pcTry = "getRoute"
    /\ composed = NoRoute
    /\ sendPayCalls = 0
    /\ sendPayErr = ""
    /\ tryResult = NoTryResult
    /\ CronIdle
    /\ TasksIdle

CronNext ==
    \/ CronLock
    \/ \E list \in CronListings : CronListChannels(list)
    \/ CronListChannelsFails
    \/ CronCreate
    \/ \E aging \in AgingWindow : CronAge(aging)
    \/ CronInsert
    \/ CronRefreshed
    \/ CronPruneOne
    \/ CronPruned
    \/ \E err \in CronOutcomes : CronFinish(err)
    \/ getRoute
    \/ PopSource
    \/ PopExpand
    \/ QueueEmpty
    \/ getRouteReturn

\* No node of these two-channel graphs is reached twice by the search, so
\* the queue never holds a stale item: PopStale is never enabled here.
SpecCron == CronInit /\ [][CronNext]_vars

(***************************************************************************)
(* Claims about the refresh cycle and the route computation                *)
(***************************************************************************)
\* The refresh cycle has begun to change the Graph and has not yet finished
\* pruning it.
GraphPartiallyUpdated ==
    \/ pcCron = "insert"
    \/ pcCron = "refresh" /\ cronIdx > 1
    \/ pcCron = "prune"

\* C8: no route computation is under way while the Graph is partially updated.
C8_NoPartialRead == ~(pcRoute = "search" /\ GraphPartiallyUpdated)

(***************************************************************************)
(* Graph.AddChannel called on its own, next to Graph.Refresh                *)
(***************************************************************************)
MaxIndexed == 2

RECURSIVE SumOver(_, _)
SumOver(f, S) ==
    IF S = {} THEN 0
    ELSE LET x == CHOOSE y \in S : TRUE
         IN  f[x] + SumOver(f, S \ {x})

\* The number of scids that an index holds, over all its buckets.
IndexSize(links) ==
    SumOver([from \in DOMAIN links |->
                SumOver([to \in DOMAIN links[from] |-> Len(links[from][to])],
                        DOMAIN links[from])],
            DOMAIN links)

\* g.AddChannel(c) for a channel c built from a listed record: lines 57-62
\* write the two indices and leave Channels alone.
AddChannelCall(c) ==
    /\ ~panicked
    /\ IndexSize(Outbound) < MaxIndexed
    /\ LET g == AddChannel([Channels |-> Channels, Outbound |-> Outbound,
                            Inbound |-> Inbound], c)
       IN  /\ Channels' = g.Channels
           /\ Outbound' = g.Outbound
           /\ Inbound' = g.Inbound
    /\ UNCHANGED <<refreshVars, routeVars, rebalanceVars, cronVars, taskVars>>

GraphListings == UNION { [1..n -> ListedChannels] : n \in 1..2 }

GraphNext ==
    \/ \E list \in GraphListings : \E agings \in [1..Len(list) -> AgingWindow] :
          Refresh(list, agings)
    \/ \E c \in ListedChannels : AddChannelCall(NewChannel(c, PerfectBalance(c)))

SpecGraph == Init /\ [][GraphNext]_vars

(***************************************************************************)
(* Claims about the indices                                                *)
(***************************************************************************)
Bucket(links, from, to) ==
    IF from \in DOMAIN links /\ to \in DOMAIN links[from] THEN links[from][to] ELSE <<>>

Occurrences(seq, x) == Cardinality({ i \in 1..Len(seq) : seq[i] = x })

\* Every scid of every bucket of the index names a channel of Channels for
\* the direction of the bucket: Outbound is keyed by source and then
\* destination (outward), Inbound by destination and then source.
BucketsResolve(links, outward) ==
    \A from \in DOMAIN links : \A to \in DOMAIN links[from] :
        \A i \in 1..Len(links[from][to]) :
            LET src == IF outward THEN from ELSE to
                dst == IF outward THEN to ELSE from
                id == ChannelId(links[from][to][i], src, dst)
            IN  /\ id \in DOMAIN Channels
                /\ Channels[id].ShortChannelId = links[from][to][i]
                /\ Channels[id].Source = src
                /\ Channels[id].Destination = dst

\* C11: after every completed AddChannel and Refresh, every channel of
\* Channels is held exactly once by Outbound[source][destination] and exactly
\* once by Inbound[destination][source], and every scid of a bucket resolves
\* to a channel of Channels for that direction.
C11_IndicesMirrorChannels ==
    ~panicked =>
        /\ \A id \in DOMAIN Channels :
              LET c == Channels[id]
              IN  /\ Occurrences(Bucket(Outbound, c.Source, c.Destination), c.ShortChannelId) = 1
                  /\ Occurrences(Bucket(Inbound, c.Destination, c.Source), c.ShortChannelId) = 1
        /\ BucketsResolve(Outbound, TRUE)
        /\ BucketsResolve(Inbound, FALSE)

(***************************************************************************)
(* Claims about the outcome of a refresh cycle                             *)
(***************************************************************************)
\* The listing of the cycle is fully applied to the graph g: every record is
\* stored with its fee policy, nothing outside the listing is left, and each
\* stored channel is indexed once in each index.
CycleApplied(g, list) ==
    /\ DOMAIN g.Channels = ListedIds(list)
    /\ \A i \in 1..Len(list) :
          g.Channels[IdOf(list[i])] =
              NewChannel(list[i], g.Channels[IdOf(list[i])].Liquidity)
    /\ \A id \in DOMAIN g.Channels :
          LET c == g.Channels[id]
          IN  /\ Bucket(g.Outbound, c.Source, c.Destination) = <<c.ShortChannelId>>
              /\ Bucket(g.Inbound, c.Destination, c.Source) = <<c.ShortChannelId>>

\* C12: a cycle whose channel listing fails returns that error and no step of
\* it changes Channels, Outbound or Inbound; a cycle whose node listing fails
\* returns that error with the refresh and the pruning of its listing fully
\* applied and the aliases as they were.
C12_ListingFailures ==
    [][/\ (pcCron \in {"idle", "locked"} /\ pcCron' \in {"idle", "locked"})
            => UNCHANGED graphVars
       /\ (pcCron = "locked" /\ pcCron' = "idle")
            => /\ cronErr' = "error listing channels"
               /\ graphLock' = ""
       /\ (pcCron = "listNodes" /\ pcCron' = "idle" /\ cronErr' = "error listing nodes")
            => /\ UNCHANGED <<graphVars, Aliases>>
               /\ graphLock' = ""
               /\ CycleApplied([Channels |-> Channels', Outbound |-> Outbound',
                                Inbound |-> Inbound'], channelList)]_vars

\* The second cycle created the one channel of its listing, pruned what the
\* first cycle had stored, and ended on a failed node listing: the aliases
\* are those of the first cycle.
C12_Witness ==
    /\ pcCron = "idle"
    /\ refreshes = 2
    /\ cronErr = "error listing nodes"
    /\ Aliases = AliasOf
    /\ agingLog = <<>>
    /\ Len(channelList) = 1
    /\ DOMAIN Channels = {IdOf(channelList[1])}

\* A call of the network client is in progress in refreshGraph: ListChannels
\* (line 41) or ListNodes (line 54) has been called and has not returned.
ListingInProgress == pcCron \in {"locked", "listNodes"}

\* C13: the Graph lock is never held while a listing call to the network
\* client is in progress.
C13_NoListingUnderLock == ListingInProgress => graphLock = ""

(***************************************************************************)
(* The cron jobs side by side: runs of node.Node.refreshGraph, each step   *)
(* of cron.go as one action, and of node.Node.refreshPeers                 *)
(***************************************************************************)
MaxCycles == 2

LockAlwaysFree(lock) == TRUE

\* sync.Mutex.Lock returns only when the mutex is free.
LockFree(lock) == lock = ""

Logged(t, step) == Append(cycleLog, [task |-> t, step |-> step])

\* The scheduler starts a run of refreshGraph: it is about to call Lock.
TaskStart(t) ==
    /\ pcTask[t] = "idle"
    /\ ~panicked
    /\ cycles < MaxCycles
    /\ cycles' = cycles + 1
    /\ pcTask' = [pcTask EXCEPT ![t] = "waiting"]
    /\ UNCHANGED <<peersLock, Peers, cycleLog, graphVars, refreshVars, routeVars,
                   rebalanceVars, cronVars>>

\* Line 38: n.graphLock.L.Lock()
TaskLock(t) ==
    /\ pcTask[t] = "waiting"
    /\ ~panicked
    /\ LockFree(graphLock)
    /\ graphLock' = t
    /\ pcTask' = [pcTask EXCEPT ![t] = "locked"]
    /\ cycleLog' = Logged(t, "lock")
    /\ UNCHANGED <<peersLock, Peers, cycles, pcCron, cronIdx, cronChannel, cronErr, Aliases,
                   graphVars, refreshVars, routeVars, rebalanceVars>>

\* Lines 41-45: ListChannels fails; the deferred Unlock runs.
TaskListChannelsFails(t) ==
    /\ pcTask[t] = "locked"
    /\ ~panicked
    /\ cronErr' = "error listing channels"
    /\ graphLock' = ""
    /\ pcTask' = [pcTask EXCEPT ![t] = "idle"]
    /\ cycleLog' = Logged(t, "unlock")
    /\ UNCHANGED <<peersLock, Peers, cycles, pcCron, cronIdx, cronChannel, Aliases,
                   graphVars, refreshVars, routeVars, rebalanceVars>>

\* Lines 41-48: ListChannels returns list and RefreshChannels runs over it; a
\* nil dereference in it ends the process.
TaskRefreshChannels(t, list, agings) ==
    /\ pcTask[t] = "locked"
    /\ ~panicked
    /\ LET st == RefreshFrom([g |-> [Channels |-> Channels, Outbound |-> Outbound,
                                     Inbound |-> Inbound],
                              panicked |-> FALSE, log |-> <<>>], list, agings, 1)
       IN  /\ Channels' = st.g.Channels
           /\ Outbound' = st.g.Outbound
           /\ Inbound' = st.g.Inbound
           /\ panicked' = st.panicked
           /\ agingLog' = st.log
           /\ pcTask' = IF st.panicked THEN pcTask ELSE [pcTask EXCEPT ![t] = "refreshed"]
           /\ cycleLog' = IF st.panicked THEN cycleLog ELSE Logged(t, "refresh")
    /\ channelList' = list
    /\ refreshes' = refreshes + 1
    /\ UNCHANGED <<peersLock, Peers, cycles, cronVars, routeVars, rebalanceVars>>

\* PruneChannels: every channel that the most recent listing does not hold
\* is removed from Channels and from both indices.
RECURSIVE PruneFrom(_, _)
PruneFrom(g, ids) ==
    IF ids = {} THEN g
    ELSE LET id == CHOOSE x \in ids : TRUE
             c == g.Channels[id]
         IN  PruneFrom([Channels |-> Without(g.Channels, id),
                        Outbound |-> RemoveEdge(g.Outbound, c.Source, c.Destination,
                                                c.ShortChannelId),
                        Inbound |-> RemoveEdge(g.Inbound, c.Destination, c.Source,
                                               c.ShortChannelId)],
                       ids \ {id})

\* Lines 50-51: n.Graph.PruneChannels()
TaskPruneChannels(t) ==
    /\ pcTask[t] = "refreshed"
    /\ ~panicked
    /\ LET g == PruneFrom([Channels |-> Channels, Outbound |-> Outbound,
                           Inbound |-> Inbound], Stale(channelList))
       IN  /\ Channels' = g.Channels
           /\ Outbound' = g.Outbound
           /\ Inbound' = g.Inbound
    /\ pcTask' = [pcTask EXCEPT ![t] = "pruned"]
    /\ cycleLog' = Logged(t, "prune")
    /\ UNCHANGED <<peersLock, Peers, cycles, cronVars, refreshVars, routeVars, rebalanceVars>>

\* Lines 53-68: ListNodes, RefreshAliases, SaveGraphToFile and the deferred Unlock.
TaskFinish(t, err) ==
    /\ pcTask[t] = "pruned"
    /\ ~panicked
    /\ Aliases' = AliasesAfter(err, Aliases)
    /\ cronErr' = err
    /\ graphLock' = ""
    /\ pcTask' = [pcTask EXCEPT ![t] = "idle"]
    /\ cycleLog' = Logged(t, "unlock")
    /\ UNCHANGED <<peersLock, Peers, cycles, pcCron, cronIdx, cronChannel,
                   graphVars, refreshVars, routeVars, rebalanceVars>>

\* What ListPeers can return: the ids of the peers.
PeerListings == SUBSET {"B", "C"}

\* The scheduler starts a run of refreshPeers: it is about to call Lock.
PeersStart ==
    /\ pcTask[PeersTask] = "idle"
    /\ ~panicked
    /\ pcTask' = [pcTask EXCEPT ![PeersTask] = "waiting"]
    /\ UNCHANGED <<peersLock, Peers, cycles, cycleLog, graphVars, refreshVars, routeVars,
                   rebalanceVars, cronVars>>

\* Line 72: n.peersLock.L.Lock()
PeersLock ==
    /\ pcTask[PeersTask] = "waiting"
    /\ ~panicked
    /\ LockFree(peersLock)
    /\ peersLock' = PeersTask
    /\ pcTask' = [pcTask EXCEPT ![PeersTask] = "locked"]
    /\ UNCHANGED <<Peers, cycles, cycleLog, graphVars, refreshVars, routeVars,
                   rebalanceVars, cronVars>>

\* Lines 76-80: ListPeers fails; the deferred Unlock runs.
PeersListFails ==
    /\ pcTask[PeersTask] = "locked"
    /\ ~panicked
    /\ peersLock' = ""
    /\ pcTask' = [pcTask EXCEPT ![PeersTask] = "idle"]
    /\ UNCHANGED <<Peers, cycles, cycleLog, graphVars, refreshVars, routeVars,
                   rebalanceVars, cronVars>>

\* Lines 76-84: ListPeers returns peers, each is stored, the deferred Unlock runs.
PeersStore(peers) ==
    /\ pcTask[PeersTask] = "locked"
    /\ ~panicked
    /\ Peers' = [id \in DOMAIN Peers \cup peers |-> [Id |-> id]]
    /\ peersLock' = ""
    /\ pcTask' = [pcTask EXCEPT ![PeersTask] = "idle"]
    /\ UNCHANGED <<cycles, cycleLog, graphVars, refreshVars, routeVars,
                   rebalanceVars, cronVars>>

\* What ListChannels can return here: one record, or two records of one
\* physical channel (its two directions in either order, or one direction
\* twice).
TaskListings ==
    { <<c>> : c \in ListedChannels }
    \cup { l \in [1..2 -> ListedChannels] : l[2].ShortChannelId = l[1].ShortChannelId }

\* The steps of a run of refreshGraph once the scheduler has started it.
GraphTaskStep(t) ==
    \/ TaskLock(t)
    \/ TaskListChannelsFails(t)
    \/ \E list \in TaskListings : \E agings \in [1..Len(list) -> AgingWindow] :
          TaskRefreshChannels(t, list, agings)
    \/ TaskPruneChannels(t)
    \/ \E err \in CronOutcomes : TaskFinish(t, err)

\* The steps of a run of refreshPeers once the scheduler has started it.
PeersTaskStep ==
    \/ PeersLock
    \/ PeersListFails
    \/ \E peers \in PeerListings : PeersStore(peers)

TasksNext ==
    \/ \E t \in GraphTasks : TaskStart(t)
    \/ \E t \in GraphTasks : GraphTaskStep(t)
    \/ PeersStart
    \/ PeersTaskStep

\* A started run is scheduled again and again, a network call of it returns,
\* and a free mutex is handed to a run that waits for it.
SpecTasks ==
    /\ Init
    /\ [][TasksNext]_vars
    /\ \A t \in GraphTasks : WF_vars(GraphTaskStep(t))
    /\ WF_vars(PeersTaskStep)

(***************************************************************************)
(* Claims about the order of the steps of the cron jobs and their locks    *)
(***************************************************************************)
StepBefore(i, t, steps) ==
    /\ i > 1
    /\ cycleLog[i - 1].task = t
    /\ cycleLog[i - 1].step \in steps

\* C14: in a refresh cycle the whole listing is applied before pruning
\* starts, pruning runs at most once and only after the refresh of the same
\* cycle, and from the lock to the unlock of a cycle no step of another cycle
\* comes in between.
C14_RefreshThenPruneInOneHold ==
    /\ \A i \in 1..Len(cycleLog) :
          LET e == cycleLog[i]
          IN  /\ e.step = "lock" => (i = 1 \/ cycleLog[i - 1].step = "unlock")
              /\ e.step = "refresh" => StepBefore(i, e.task, {"lock"})
              /\ e.step = "prune" => StepBefore(i, e.task, {"refresh"})
              /\ e.step = "unlock" => StepBefore(i, e.task, {"lock", "prune"})
    /\ \A t \in GraphTasks :
          /\ pcTask[t] = "refreshed" =>
                /\ graphLock = t
                /\ ListedIds(channelList) \subseteq DOMAIN Channels
          /\ pcTask[t] = "pruned" =>
                /\ graphLock = t
                /\ DOMAIN Channels = ListedIds(channelList)

\* Two cycles of two different runs have refreshed and pruned, the second
\* one having waited for the lock while the first one held it.
C14_Witness ==
    /\ Len(cycleLog) = 8
    /\ cycleLog[1].task # cycleLog[5].task
    /\ cycleLog[3].step = "prune"
    /\ cycleLog[7].step = "prune"
    /\ cycleLog[8].step = "unlock"

\* Each lock is held by a run of its own job only, no run holds both, and a
\* run that has returned or not yet locked holds none.
LocksIndependent ==
    /\ graphLock \in GraphTasks \cup {""}
    /\ peersLock \in {PeersTask, ""}
    /\ \A t \in Tasks :
          /\ ~(graphLock = t /\ peersLock = t)
          /\ pcTask[t] \in {"idle", "waiting"} => (graphLock # t /\ peersLock # t)

\* C15: the Graph lock and the peers lock are never held by one run, every
\* return releases the lock of the run, and every run that has been started,
\* of refreshGraph and of refreshPeers, completes.
C15_IndependentLocksAndCompletion ==
    /\ []LocksIndependent
    /\ \A t \in Tasks : (pcTask[t] = "waiting") ~> (pcTask[t] = "idle")

(***************************************************************************)
(* Claims about the hops that Graph.dijkstra returns                       *)
(***************************************************************************)
Returned == pcRoute = "done" /\ result.err = ""

\* C16 as stated: read from the source side, the amount of a hop is at most
\* the amount of the hop after it.
C16_AmountsGrowForward ==
    Returned =>
        \A i \in 1..(Len(result.hops) - 1) :
            result.hops[i].MilliSatoshi <= result.hops[i + 1].MilliSatoshi

\* C16 amended: the amounts grow in the construction order, from the
\* destination to the source: read from the source side, the amount of a hop
\* is at least the amount of the hop after it, the last hop carrying the
\* least.
C16_AmountsShrinkForward ==
    Returned =>
        \A i \in 1..(Len(result.hops) - 1) :
            result.hops[i].MilliSatoshi >= result.hops[i + 1].MilliSatoshi

\* A returned route of two hops whose first hop carries more than its second.
C16_Witness ==
    /\ Returned
    /\ Len(result.hops) = 2
    /\ result.hops[1].MilliSatoshi > result.hops[2].MilliSatoshi

\* The last hop carries the requested amount with delay 0, every other hop
\* the amount and the delay of the hop after it plus the fee and the delay of
\* the channel of the hop after it.
HopsChained ==
    \A i \in 1..Len(result.hops) :
        LET h == result.hops[i]
        IN  IF i = Len(result.hops)
            THEN h.MilliSatoshi = request.amount /\ h.Delay = 0
            ELSE LET next == result.hops[i + 1]
                 IN  /\ h.MilliSatoshi =
                            next.MilliSatoshi + ComputeFee(next.Channel, next.MilliSatoshi)
                     /\ h.Delay = next.Delay + next.Channel.Delay

\* C17 as stated: the hops are chained, and the recorded cost of the source
\* is the sum of the fees of the hops after the first.
C17_CostWithoutFirstHop ==
    Returned =>
        /\ HopsChained
        /\ Dist(distance, request.src) = SumFees(result.hops, 2)

\* C17 amended: the hops are chained, and the recorded cost of the source is
\* the sum of the fees of all hops, the first included.
C17_CostOfAllHops ==
    Returned =>
        /\ HopsChained
        /\ Dist(distance, request.src) = SumFees(result.hops, 1)

\* A returned route of two hops over channels that both charge a fee.
C17_Witness ==
    /\ Returned
    /\ Len(result.hops) = 2
    /\ ComputeFee(result.hops[1].Channel, result.hops[1].MilliSatoshi) > 0
    /\ ComputeFee(result.hops[2].Channel, result.hops[2].MilliSatoshi) > 0
    /\ result.hops[2].Channel.Delay > 0

(***************************************************************************)
(* Termination of Graph.dijkstra                                           *)
(***************************************************************************)
SearchStep == PopSource \/ PopStale \/ PopExpand \/ QueueEmpty

\* The graphs that hold the cycle of r4 and r8, which costs no fee, and any
\* selection of the other channels.
CycleInit == RouteInit /\ {"r4/0", "r8/1"} \subseteq DOMAIN Channels

\* A call of dijkstra keeps running: its goroutine is scheduled again.
SpecRouteFair == CycleInit /\ [][RouteNext]_vars /\ WF_vars(SearchStep)

\* The hops lead from src to dst, each starting where the one before ends,
\* through nodes that are all different.
SimplePath(hops, src, dst) ==
    IF hops = <<>> THEN src = dst
    ELSE /\ hops[1].Channel.Source = src
         /\ hops[Len(hops)].Channel.Destination = dst
         /\ \A i \in 1..(Len(hops) - 1) :
               hops[i].Channel.Destination = hops[i + 1].Channel.Source
         /\ Cardinality({src} \cup { hops[i].Channel.Destination : i \in 1..Len(hops) })
               = Len(hops) + 1

\* C20: the search loop ends, the walk from src along the recorded hops ends,
\* and a returned hop sequence is a connected simple path from src to dst.
C20_TerminatesWithSimplePath ==
    /\ [](pcRoute = "done" =>
             /\ result.err # "endless"
             /\ result.err = "" => SimplePath(result.hops, request.src, request.dst))
    /\ (pcRoute = "search") ~> (pcRoute = "done")

\* A route of three hops has been returned, its last hop over r4 of the
\* cycle, after the search has expanded both nodes of the cycle.
C20_Witness ==
    /\ Returned
    /\ Len(result.hops) = 3
    /\ result.hops[3].Channel.ShortChannelId = "r4"
    /\ {"r4/0", "r8/1"} \subseteq DOMAIN Channels

(***************************************************************************)
(* Claims about the route of a rebalance attempt                           *)
(***************************************************************************)
\* The route starts with out, ends with in, and no hop between them starts
\* or ends at the node self.
Bracketed(route, out, in, self) ==
    /\ Len(route.Hops) >= 2
    /\ route.Hops[1].Channel = out
    /\ route.Hops[Len(route.Hops)].Channel = in
    /\ \A i \in 2..(Len(route.Hops) - 1) :
          /\ route.Hops[i].Channel.Source # self
          /\ route.Hops[i].Channel.Destination # self

\* C18: the interior route of an attempt is requested from
\* OutChannel.Destination to InChannel.Source for the amount, with the node's
\* own id excluded, and every route that the attempt composes or returns
\* starts with OutChannel, ends with InChannel and has no hop through the
\* node itself between them.
C18_InteriorRouteAvoidsSelf ==
    /\ pcTry \in {"routing", "sendPay", "returned"} /\ request # NoRequest =>
          /\ request.src = rebalance.OutChannel.Destination
          /\ request.dst = rebalance.InChannel.Source
          /\ request.amount = rebalance.Amount
          /\ rebalance.NodeId \in request.exclude
    /\ composed # NoRoute =>
          Bracketed(composed, rebalance.OutChannel, rebalance.InChannel, rebalance.NodeId)
    /\ tryResult.route # NoRoute =>
          /\ tryResult.route = composed
          /\ Bracketed(tryResult.route, rebalance.OutChannel, rebalance.InChannel,
                       rebalance.NodeId)

\* An attempt has returned a route of four hops: two interior hops between
\* the node's own two channels.
C18_Witness ==
    /\ pcTry = "returned"
    /\ tryResult.err = ""
    /\ Len(tryResult.route.Hops) = 4
    /\ tryResult.route.Hops[2].Channel.Source = rebalance.OutChannel.Destination
    /\ tryResult.route.Hops[3].Channel.Destination = rebalance.InChannel.Source

(***************************************************************************)
(* Claims about nil accesses in Graph.Refresh                              *)
(***************************************************************************)
\* C19: no sequence of listings makes Graph.Refresh dereference a missing
\* opposite channel.
C19_RefreshNeverPanics == ~panicked

====
